---- MODULE Spec2Model ----
(***************************************************************************)
(* Order core of the Casa Petrada backend: the orders / order_items        *)
(* tables (app/models/order.py), the create_order handler                  *)
(* (app/api/api_v1/endpoints/orders.py) and the update_order_status        *)
(* handler (app/api/api_v1/endpoints/admin.py).                            *)
(*                                                                         *)
(* Money is kept in integer cents.  Every request runs in its own          *)
(* AsyncSession (core/database.py get_db); a handler is split only at its  *)
(* await points that touch the database.                                   *)
(*                                                                         *)
(* create_order hands Order(...) keywords the mapped class does not have,  *)
(* so as the code stands no call of it inserts a row; the orders the       *)
(* status handler works on are rows already in the database at start.      *)
(*                                                                         *)
(* The administrative listings (endpoints/admin.py), the newsletter        *)
(* handlers (endpoints/newsletter.py) and the review handlers              *)
(* (endpoints/reviews.py) have their own specifications: SpecQuery,        *)
(* SpecNews and SpecReviews.                                               *)
(***************************************************************************)
EXTENDS Integers, Sequences, FiniteSets, TLC

\* ------------------------------------------------------------------ bounds
\* number of update_order_status requests that are started in one behaviour
MaxUpdates == 2

\* rows table orders can hold before create_order is no longer issued
MaxOrders == 4

\* ------------------------------------------------------- program constants
\* SQL NULL / Python None in a numeric column
Null == -1

\* models/order.py OrderStatus
OrderStatus ==
  {"pending", "confirmed", "processing", "shipped", "delivered",
   "cancelled", "refunded"}

\* models/order.py PaymentStatus
PaymentStatus == {"pending", "paid", "failed", "refunded"}

\* SQL NULL / Python None in the status column (the column is nullable)
NullStatus == "NULL"

\* a string that is not a member of the orderstatus enum type
BogusStatus == "bogus"

\* what status_data.get("status") can yield: the handler takes a raw dict,
\* so any string, or None when the key is absent
StatusInputs == OrderStatus \cup {NullStatus, BogusStatus}

\* authenticated users (get_current_user) and the admin request slots
Users == {1, 2}
Requests == {"r1", "r2"}

\* order ids a request may name; id 3 is never in the store
OrderIds == {1, 2, 3}

\* users whose is_admin column is true
AdminUsers == {2}

\* rows of table products: 1 and 2 can be bought, 3 is switched off
\* (is_active false); there is no product 9
Products ==
  {[id |-> 1, is_active |-> TRUE], [id |-> 2, is_active |-> TRUE],
   [id |-> 3, is_active |-> FALSE]}

\* fields of OrderResponse that have no default
OrderResponseRequired ==
  {"id", "order_number", "user_id", "status", "total_amount",
   "shipping_address", "payment_method", "created_at"}

\* attributes of the mapped class Order (columns and relationships)
OrderAttributes ==
  {"id", "order_number", "user_id", "customer_email", "customer_first_name",
   "customer_last_name", "customer_phone", "shipping_address_line1",
   "shipping_address_line2", "shipping_city", "shipping_postal_code",
   "shipping_country", "billing_same_as_shipping", "billing_address_line1",
   "billing_address_line2", "billing_city", "billing_postal_code",
   "billing_country", "subtotal", "shipping_cost", "tax_amount",
   "discount_amount", "total_amount", "status", "payment_status",
   "payment_method", "payment_reference", "shipping_method",
   "tracking_number", "shipped_at", "delivered_at", "customer_notes",
   "admin_notes", "user", "items", "created_at", "updated_at"}

\* nullable=False columns of Order without a default
OrderNotNull ==
  {"order_number", "customer_email", "customer_first_name",
   "customer_last_name", "shipping_address_line1", "shipping_city",
   "shipping_postal_code", "subtotal", "total_amount"}

\* keyword arguments create_order passes to Order(...)
OrderKwargs ==
  {"order_number", "user_id", "status", "total_amount", "shipping_address",
   "billing_address", "payment_method", "notes"}

\* attributes of the mapped class OrderItem
ItemAttributes ==
  {"id", "order_id", "product_id", "product_name", "product_sku",
   "unit_price", "quantity", "total_price", "order", "product",
   "created_at"}

\* nullable=False columns of OrderItem without a default
ItemNotNull == {"order_id", "product_id", "product_name", "unit_price",
                "total_price"}

\* keyword arguments create_order passes to OrderItem(...)
ItemKwargs == {"order_id", "product_id", "quantity", "price"}

\* order numbers the generator can produce on one day; the six hex digits
\* of a uuid4 are a free choice, so two calls can draw the same number
OrderNumbers == {"CP-A", "CP-C"}

\* OrderItemCreate payloads (product_id, quantity, price)
ItemA == [product_id |-> 1, quantity |-> 2, price |-> 1000]
ItemB == [product_id |-> 2, quantity |-> 1, price |-> 500]
ItemC == [product_id |-> 1, quantity |-> 1, price |-> 700]
ItemLists == {<<ItemC>>, <<ItemA, ItemB>>}

\* further payloads the schema lets through: quantity is any int and
\* product_id any int
ItemZeroQty == [product_id |-> 1, quantity |-> 0, price |-> 700]
ItemNegQty == [product_id |-> 2, quantity |-> -1, price |-> 500]
ItemNoProduct == [product_id |-> 9, quantity |-> 1, price |-> 700]
ItemInactive == [product_id |-> 3, quantity |-> 1, price |-> 700]
MoreItemLists ==
  ItemLists \cup {<<ItemZeroQty>>, <<ItemA, ItemNegQty>>, <<ItemNoProduct>>,
                  <<ItemA, ItemInactive>>}

VARIABLES
  orders,       \* rows of table orders
  order_items,  \* rows of table order_items
  sess,         \* per request slot: the update_order_status call in flight
  resp,         \* per request slot: HTTP status of its last finished call
  created,      \* the last create_order exchange (request and response)
  everShipped,  \* ids of orders whose status has been "shipped"
  started,      \* update_order_status requests started so far
  got,          \* the last read exchange (get_order, get_user_orders, admin)
  subs,         \* rows of table newsletter_subscriptions
  nsess,        \* per request slot: the newsletter call in flight
  nresp,        \* per request slot: the last finished newsletter exchange
  nstarted,     \* newsletter requests started so far
  reviews,      \* rows of table reviews
  rsess,        \* per request slot: the review call in flight
  rresp,        \* per request slot: the last finished review exchange
  rstarted,     \* review requests started so far
  rseq          \* last value drawn from the id sequence of table reviews

newsVars == <<subs, nsess, nresp, nstarted>>

reviewVars == <<reviews, rsess, rresp, rstarted, rseq>>

vars ==
  <<orders, order_items, sess, resp, created, everShipped, started, got,
    subs, nsess, nresp, nstarted, reviews, rsess, rresp, rstarted, rseq>>

\* a newsletter or review request slot with no call in flight
NoCall == [pc |-> "idle"]

\* a slot that has not finished any call yet
NoAnswer == [op |-> "none", code |-> 0]

\* the newsletter endpoints are not called
NewsQuiet ==
  /\ subs = {}
  /\ nsess = [r \in Requests |-> NoCall]
  /\ nresp = [r \in Requests |-> NoAnswer]
  /\ nstarted = 0

\* the review endpoints are not called
ReviewsQuiet ==
  /\ reviews = {}
  /\ rsess = [r \in Requests |-> NoCall]
  /\ rresp = [r \in Requests |-> NoAnswer]
  /\ rstarted = 0
  /\ rseq = 0

\* -------------------------------------------------------------- the store
\* the row of table orders with primary key oid (select ... where id = oid)
OrderById(rows, oid) == CHOOSE o \in rows : o.id = oid

\* result.scalar_one_or_none() is not None
OrderExists(rows, oid) == \E o \in rows : o.id = oid

\* values of the unique column order_number
NumbersOf(rows) == {o.order_number : o \in rows}

\* func.now() at an INSERT: later than the created_at of every row present
NextCreatedAt(rows) ==
  IF rows = {} THEN 1
  ELSE (CHOOSE m \in {o.created_at : o \in rows} :
          \A o \in rows : o.created_at <= m) + 1

\* the primary key the database assigns to the next inserted order
NextOrderId(rows) ==
  IF rows = {} THEN 1
  ELSE (CHOOSE m \in {o.id : o \in rows} : \A o \in rows : o.id <= m) + 1

\* rows of the store the program is started on: two orders placed earlier,
\* both still pending; the payment collaborator has set payment_status
InitialOrders(pay) ==
  {[id |-> 1, order_number |-> "CP-A", user_id |-> 1,
    subtotal |-> 2500, shipping_cost |-> 300, tax_amount |-> 200,
    discount_amount |-> 0, total_amount |-> 3000,
    status |-> "pending", payment_status |-> pay,
    shipped_at |-> Null, created_at |-> 1, updated_at |-> Null],
   [id |-> 2, order_number |-> "CP-B", user_id |-> 2,
    subtotal |-> 700, shipping_cost |-> 0, tax_amount |-> 0,
    discount_amount |-> 200, total_amount |-> 500,
    status |-> "pending", payment_status |-> "pending",
    shipped_at |-> Null, created_at |-> 2, updated_at |-> Null]}

\* payment states the first order is started in: the payment collaborator
\* has either settled it or reported the payment as failed
InitialPayments == {"paid", "failed"}

InitialItems ==
  {[order_id |-> 1, product_id |-> 1, unit_price |-> 1000, quantity |-> 2,
    total_price |-> 2000],
   [order_id |-> 1, product_id |-> 2, unit_price |-> 500, quantity |-> 1,
    total_price |-> 500],
   [order_id |-> 2, product_id |-> 1, unit_price |-> 700, quantity |-> 1,
    total_price |-> 700]}

\* ---------------------------------------------------------- create_order
\* the declarative constructor raises TypeError for a keyword that is not
\* an attribute of the mapped class
CtorAccepts(kwargs, attrs) == kwargs \subseteq attrs

\* how far `try:` gets: "TypeError" from Order(...) or OrderItem(...),
\* "IntegrityError" from the INSERT of the flush or of the commit (NOT NULL
\* columns left unset, order_number already taken), else "ok"
\* (two permissive variants precede the outcome the code produces: one in
\* which only the unique index can fail the call, one in which nothing can)
CreateOutcomeUnchecked(d, n, rows) == "ok"

CreateOutcomeLegacy(d, n, rows) ==
  IF n \in NumbersOf(rows) THEN "IntegrityError" ELSE "ok"

CreateOutcome(d, n, rows) ==
  IF ~CtorAccepts(OrderKwargs, OrderAttributes) THEN "TypeError"
  ELSE IF ~(OrderNotNull \subseteq OrderKwargs) THEN "IntegrityError"
  ELSE IF n \in NumbersOf(rows) THEN "IntegrityError"
  ELSE IF d.items # << >> /\ ~CtorAccepts(ItemKwargs, ItemAttributes)
    THEN "TypeError"
  ELSE IF d.items # << >> /\ ~(ItemNotNull \subseteq ItemKwargs)
    THEN "IntegrityError"
  ELSE IF \E i \in 1..Len(d.items) :
            d.items[i].product_id \notin {p.id : p \in Products}
    THEN "IntegrityError"
  ELSE "ok"

\* the orders row Order(...) describes: the columns named in the call take
\* the submitted values, the others their column default or NULL
NewOrderRow(u, d, n, rows) ==
  [id |-> NextOrderId(rows), order_number |-> n, user_id |-> u,
   subtotal |-> Null, shipping_cost |-> 0, tax_amount |-> 0,
   discount_amount |-> 0, total_amount |-> d.total_amount,
   status |-> "pending", payment_status |-> "pending",
   shipped_at |-> Null, created_at |-> NextCreatedAt(rows),
   updated_at |-> Null]

\* the order_items rows of the loop over order_data.items
NewItemRows(d, oid) ==
  {[order_id |-> oid, product_id |-> d.items[i].product_id,
    unit_price |-> Null, quantity |-> d.items[i].quantity,
    total_price |-> Null] : i \in 1..Len(d.items)}

\* table orders after the call: commit keeps the flushed row, the rollback
\* of the except branch discards it
OrdersAfterCreateNoRollback(outcome, rows, new) == rows \cup {new}

OrdersAfterCreate(outcome, rows, new) ==
  IF outcome = "ok" THEN rows \cup {new} ELSE rows

\* table order_items after the call
ItemsAfterCreateNoRollback(outcome, rows, new) == rows \cup new

ItemsAfterCreate(outcome, rows, new) ==
  IF outcome = "ok" THEN rows \cup new ELSE rows

\* HTTP status of the call: the order on success, HTTPException(500) whose
\* detail names the exception otherwise
CreateCode(outcome) == IF outcome = "ok" THEN 200 ELSE 500

NoCreate == [code |-> 0, detail |-> "none", order_number |-> "none",
             total_amount |-> 0, items |-> << >>]

\* POST /orders/ by user u with body d; n is the order number the call draws
CreateOrder(u, d, n) ==
  LET outcome == CreateOutcome(d, n, orders)
      new     == NewOrderRow(u, d, n, orders)
  IN /\ Cardinality(orders) < MaxOrders
     /\ orders' = OrdersAfterCreate(outcome, orders, new)
     /\ order_items' =
          ItemsAfterCreate(outcome, order_items, NewItemRows(d, new.id))
     /\ created' = [code |-> CreateCode(outcome), detail |-> outcome,
                    order_number |-> n, total_amount |-> d.total_amount,
                    items |-> d.items]
     /\ UNCHANGED <<sess, resp, everShipped, started, got, newsVars,
                    reviewVars>>

\* sum over the submitted items of price * quantity
RECURSIVE ItemsTotal(_)
ItemsTotal(items) ==
  IF items = << >> THEN 0
  ELSE Head(items).price * Head(items).quantity + ItemsTotal(Tail(items))

\* request bodies: the submitted grand total agrees with the items or is
\* one euro too low or too high
OrderBodies ==
  {[items |-> its, total_amount |-> ItemsTotal(its) + delta] :
     its \in ItemLists, delta \in {0, 100}}

\* --------------------------------------------------- update_order_status
Idle == [pc |-> "idle", order_id |-> 0, loaded |-> "none", new |-> "none"]

\* the slot a newly arriving request is given: the first one not in use
FreeSlot ==
  IF sess["r1"].pc = "idle" THEN "r1"
  ELSE IF sess["r2"].pc = "idle" THEN "r2" ELSE "none"

\* the orderstatus column accepts a member of the enum or NULL
StatusStorable(st) == st \in OrderStatus \cup {NullStatus}

\* onupdate=func.now(): the stamp an UPDATE leaves in updated_at; stamps of
\* successive UPDATEs of a row differ, so they are numbered
UpdateStamp(t) == IF t = Null THEN 1 ELSE t + 1

\* the row after the UPDATE the commit emits: the status column written
\* (order.status = ...) and updated_at stamped; no other column is named
WithStatusRenumbered(o, st) ==
  [o EXCEPT !.status = st, !.updated_at = UpdateStamp(o.updated_at),
            !.order_number = "CP-C"]

WithStatus(o, st) ==
  [o EXCEPT !.status = st, !.updated_at = UpdateStamp(o.updated_at)]

\* the unit of work emits an UPDATE only for an attribute whose value
\* differs from the one loaded
NetChangeAlways(loaded, new) == TRUE

NetChange(loaded, new) == new # loaded

\* table orders after the UPDATE of row cur
OrdersAfterUpdateDeleting(rows, cur, st) ==
  IF st \in {"cancelled", "refunded"} THEN rows \ {cur}
  ELSE (rows \ {cur}) \cup {WithStatus(cur, st)}

OrdersAfterUpdate(rows, cur, st) ==
  (rows \ {cur}) \cup {WithStatus(cur, st)}

\* lines 202-203: HTTP status once the SELECT has run: 404 for no row,
\* 0 (no answer yet) while the handler goes on
SelectAnswerUnchecked(found) == IF found THEN 0 ELSE 500

SelectAnswer(found) == IF found THEN 0 ELSE 404

\* lines 198-203: the SELECT; 404 when there is no such order, otherwise
\* the order is loaded into the session and its status attribute is set
UpdateSelect(r, oid, st) ==
  /\ sess[r].pc = "idle"
  /\ r = FreeSlot
  /\ started < MaxUpdates
  /\ started' = started + 1
  /\ resp' = [resp EXCEPT ![r] = SelectAnswer(OrderExists(orders, oid))]
  /\ IF OrderExists(orders, oid)
       THEN sess' = [sess EXCEPT ![r] =
                  [pc |-> "loaded", order_id |-> oid,
                   loaded |-> OrderById(orders, oid).status, new |-> st]]
       ELSE UNCHANGED sess
  /\ UNCHANGED <<orders, order_items, created, everShipped, got, newsVars,
                 reviewVars>>

\* lines 205-212: db.commit() flushes the pending attribute change as an
\* UPDATE of the row (none when the value set equals the value loaded) and
\* commits; a value the enum type rejects fails the statement
UpdateCommit(r) ==
  /\ sess[r].pc = "loaded"
  /\ LET s   == sess[r]
         cur == OrderById(orders, s.order_id)
     IN IF ~StatusStorable(s.new)
          THEN /\ resp' = [resp EXCEPT ![r] = 500]
               /\ UNCHANGED <<orders, everShipped>>
          ELSE /\ resp' = [resp EXCEPT ![r] = 200]
               /\ IF ~NetChange(s.loaded, s.new)
                    THEN UNCHANGED <<orders, everShipped>>
                    ELSE /\ orders' = OrdersAfterUpdate(orders, cur, s.new)
                         /\ everShipped' =
                              IF s.new = "shipped"
                                THEN everShipped \cup {s.order_id}
                                ELSE everShipped
  /\ sess' = [sess EXCEPT ![r] = Idle]
  /\ UNCHANGED <<order_items, created, started, got, newsVars, reviewVars>>

\* ------------------------------------------------ get_order, get_user_orders
NoRead == [op |-> "none", user |-> 0, order_id |-> 0, code |-> 0,
           detail |-> "none", body |-> << >>]

\* select(Order).where(Order.id == order_id, Order.user_id == current_user.id)
GetOrderQueryAnyOwner(rows, oid, u) == {o \in rows : o.id = oid}

GetOrderQuery(rows, oid, u) == {o \in rows : o.id = oid /\ o.user_id = u}

\* select(Order).where(Order.user_id == current_user.id)
UserOrdersQuery(rows, u) == {o \in rows : o.user_id = u}

\* .order_by(Order.created_at.desc()) followed by scalars().all()
RECURSIVE NewestFirst(_)
NewestFirst(rows) ==
  IF rows = {} THEN << >>
  ELSE LET m == CHOOSE o \in rows :
                  \A x \in rows : x.created_at <= o.created_at
       IN <<m>> \o NewestFirst(rows \ {m})

\* response_model=OrderResponse: the returned Order is validated field by
\* field (from_attributes); a required field the object does not have fails
\* the validation and the client is sent 500
ResponseValidates == OrderResponseRequired \subseteq OrderAttributes

\* what the client is sent for the sequence of orders a handler returns
Serialized(op, u, oid, rows) ==
  IF rows = << >> \/ ResponseValidates
    THEN [op |-> op, user |-> u, order_id |-> oid, code |-> 200,
          detail |-> "ok", body |-> rows]
    ELSE [op |-> op, user |-> u, order_id |-> oid, code |-> 500,
          detail |-> "ResponseValidationError", body |-> << >>]

\* GET /orders/{order_id} by user u
GetOrder(u, oid) ==
  LET found == GetOrderQuery(orders, oid, u)
  IN /\ got' =
          IF found = {}
            THEN [op |-> "get_order", user |-> u, order_id |-> oid,
                  code |-> 404, detail |-> "Order not found",
                  body |-> << >>]
            ELSE Serialized("get_order", u, oid,
                            <<CHOOSE o \in found : TRUE>>)
     /\ UNCHANGED <<orders, order_items, sess, resp, created, everShipped,
                    started, newsVars, reviewVars>>

\* GET /orders/ by user u
GetUserOrders(u) ==
  /\ got' = Serialized("get_user_orders", u, 0,
                       NewestFirst(UserOrdersQuery(orders, u)))
  /\ UNCHANGED <<orders, order_items, sess, resp, created, everShipped,
                 started, newsVars, reviewVars>>

\* ------------------------------------- get_recent_orders, get_customers
\* rows of table users (id, created_at); models/user.py
UserRows == {[id |-> u, created_at |-> u] : u \in {1, 2, 3}}

\* values of the query parameters skip and limit that are tried
PageSkips == {0, 1, 5}

PageLimits == {0, 1, 2, 20}

\* .offset(skip).limit(limit) on an ordered result
Page(seq, skip, limit) ==
  SubSeq(seq, skip + 1, IF skip + limit < Len(seq) THEN skip + limit
                                                   ELSE Len(seq))

\* order.items is a lazy relationship (models/order.py:80) and the session
\* is an AsyncSession (core/database.py:17-21): reading it outside a
\* greenlet raises MissingGreenlet instead of loading the items
LazyLoadWorks == FALSE

\* GET /admin/orders/recent?limit=...: the newest orders; the returned
\* object has the one key "orders"
GetRecentOrders(limit) ==
  LET page == Page(NewestFirst(orders), 0, limit)
  IN /\ got' =
          IF page = << >> \/ LazyLoadWorks
            THEN [op |-> "get_recent_orders", user |-> 0, order_id |-> 0,
                  code |-> 200, detail |-> "ok", body |-> page,
                  keys |-> {"orders"}, total |-> Null,
                  skip |-> 0, limit |-> limit]
            ELSE [op |-> "get_recent_orders", user |-> 0, order_id |-> 0,
                  code |-> 500, detail |-> "MissingGreenlet",
                  body |-> << >>, keys |-> {}, total |-> Null,
                  skip |-> 0, limit |-> limit]
     /\ UNCHANGED <<orders, order_items, sess, resp, created, everShipped,
                    started, newsVars, reviewVars>>

\* GET /admin/customers?skip=...&limit=...: a page of the users, newest
\* first, with select(func.count(User.id)) as total
GetCustomers(skip, limit) ==
  /\ got' = [op |-> "get_customers", user |-> 0, order_id |-> 0,
             code |-> 200, detail |-> "ok",
             body |-> Page(NewestFirst(UserRows), skip, limit),
             keys |-> {"customers", "total", "skip", "limit"},
             total |-> Cardinality(UserRows), skip |-> skip,
             limit |-> limit]
  /\ UNCHANGED <<orders, order_items, sess, resp, created, everShipped,
                 started, newsVars, reviewVars>>

\* ------------------------------------------------------- the specification
Init ==
  /\ \E pay \in InitialPayments : orders = InitialOrders(pay)
  /\ order_items = InitialItems
  /\ sess = [r \in Requests |-> Idle]
  /\ resp = [r \in Requests |-> 0]
  /\ created = NoCreate
  /\ everShipped = {}
  /\ started = 0
  /\ got = NoRead
  /\ NewsQuiet
  /\ ReviewsQuiet

Next ==
  \/ \E u \in Users, d \in OrderBodies, n \in OrderNumbers :
       CreateOrder(u, d, n)
  \/ \E r \in Requests, oid \in OrderIds, st \in StatusInputs :
       UpdateSelect(r, oid, st)
  \/ \E r \in Requests : UpdateCommit(r)

Spec == Init /\ [][Next]_vars

\* ------------------------------------- creation and reads on a larger store
\* a store in which user 1 has two orders and user 2 one
QueryOrders ==
  InitialOrders("paid") \cup
  {[id |-> 3, order_number |-> "CP-D", user_id |-> 1,
    subtotal |-> 700, shipping_cost |-> 300, tax_amount |-> 0,
    discount_amount |-> 0, total_amount |-> 1000,
    status |-> "pending", payment_status |-> "pending",
    shipped_at |-> Null, created_at |-> 3, updated_at |-> Null]}

QueryItems ==
  InitialItems \cup
  {[order_id |-> 3, product_id |-> 2, unit_price |-> 700, quantity |-> 1,
    total_price |-> 700]}

\* users that read: 1 and 2 own orders, 3 owns none
QueryUsers == Users \cup {3}

\* order ids a read may name; id 4 is not in the store
QueryIds == OrderIds \cup {4}

\* request bodies over all the payloads
QueryBodies ==
  {[items |-> its, total_amount |-> ItemsTotal(its) + delta] :
     its \in MoreItemLists, delta \in {0, 100}}

InitQuery ==
  /\ orders = QueryOrders
  /\ order_items = QueryItems
  /\ sess = [r \in Requests |-> Idle]
  /\ resp = [r \in Requests |-> 0]
  /\ created = NoCreate
  /\ everShipped = {}
  /\ started = 0
  /\ got = NoRead
  /\ NewsQuiet
  /\ ReviewsQuiet

NextQuery ==
  \/ \E u \in Users, d \in QueryBodies, n \in OrderNumbers :
       CreateOrder(u, d, n)
  \/ \E u \in QueryUsers, oid \in QueryIds : GetOrder(u, oid)
  \/ \E u \in QueryUsers : GetUserOrders(u)
  \/ \E limit \in PageLimits : GetRecentOrders(limit)
  \/ \E skip \in PageSkips, limit \in PageLimits : GetCustomers(skip, limit)

SpecQuery == InitQuery /\ [][NextQuery]_vars

\* ------------------------------------------------------------ newsletter
\* newsletter requests that are started in one behaviour
MaxNewsCalls == 5

\* addresses that subscribe and unsubscribe
Emails == {"a@x.de", "b@x.de"}

\* values of the request field source
Sources == {"website", "checkout"}

\* select(NewsletterModel).where(NewsletterModel.email == email)
SubsByEmail(rows, e) == {s \in rows : s.email = e}

\* the row of table newsletter_subscriptions with primary key id
SubById(rows, id) == CHOOSE s \in rows : s.id = id

\* the primary key the database assigns to the next inserted subscription
NextSubId(rows) ==
  IF rows = {} THEN 1
  ELSE (CHOOSE m \in {s.id : s \in rows} : \A s \in rows : s.id <= m) + 1

\* the slot a newly arriving newsletter request is given
FreeNewsSlot ==
  IF nsess["r1"].pc = "idle" THEN "r1"
  ELSE IF nsess["r2"].pc = "idle" THEN "r2" ELSE "none"

\* column email is unique: the INSERT of a second row with the address of
\* a row in the table fails with IntegrityError
InsertAcceptedAnyEmail(rows, e) == TRUE

InsertAccepted(rows, e) == SubsByEmail(rows, e) = {}

\* lines 53-57 and the column defaults: the row a new subscription inserts
NewSubscription(rows, e, src) ==
  [id |-> NextSubId(rows), email |-> e, subscribed_at |-> 1,
   is_active |-> TRUE, unsubscribed_at |-> Null, source |-> src]

\* lines 44-48: the UPDATE of a reactivation, written over row cur; the
\* unit of work sets the attributes whose value differs from the one loaded
Reactivated(cur, loaded, src) ==
  [cur EXCEPT !.is_active = IF loaded.is_active THEN @ ELSE TRUE,
              !.subscribed_at = UpdateStamp(@),
              !.unsubscribed_at = IF loaded.unsubscribed_at = Null
                                    THEN @ ELSE Null,
              !.source = IF loaded.source = src THEN @ ELSE src]

\* lines 97-99: the UPDATE of an unsubscription, written over row cur
DeactivatedKeepingNull(cur, loaded) ==
  [cur EXCEPT !.is_active = IF loaded.is_active THEN FALSE ELSE @]

Deactivated(cur, loaded) ==
  [cur EXCEPT !.is_active = IF loaded.is_active THEN FALSE ELSE @,
              !.unsubscribed_at = UpdateStamp(@)]

\* the exchange slot r has finished (code 0: the call is still running)
NewsAnswer(op, e, code) == [op |-> op, email |-> e, code |-> code]

\* lines 31-47, 53-58: the SELECT by address and what the handler does
\* with its result up to the commit
SubscribeSelect(r, e, src) ==
  LET found == SubsByEmail(subs, e)
  IN /\ nsess[r].pc = "idle"
     /\ r = FreeNewsSlot
     /\ nstarted < MaxNewsCalls
     /\ nstarted' = nstarted + 1
     /\ IF Cardinality(found) > 1
          THEN \* scalar_one_or_none raises MultipleResultsFound
               /\ nresp' = [nresp EXCEPT ![r] = NewsAnswer("subscribe", e, 500)]
               /\ UNCHANGED nsess
          ELSE IF found = {}
          THEN /\ nsess' = [nsess EXCEPT ![r] =
                              [pc |-> "insert", email |-> e, source |-> src]]
               /\ nresp' = [nresp EXCEPT ![r] = NewsAnswer("subscribe", e, 0)]
          ELSE LET row == CHOOSE s \in found : TRUE
               IN IF row.is_active
                    THEN /\ nresp' = [nresp EXCEPT ![r] =
                                        NewsAnswer("subscribe", e, 400)]
                         /\ UNCHANGED nsess
                    ELSE /\ nsess' = [nsess EXCEPT ![r] =
                                        [pc |-> "reactivate", email |-> e,
                                         source |-> src, loaded |-> row]]
                         /\ nresp' = [nresp EXCEPT ![r] =
                                        NewsAnswer("subscribe", e, 0)]
     /\ UNCHANGED <<subs, orders, order_items, sess, resp, created,
                    everShipped, started, got, reviewVars>>

\* lines 48-50, 59-61, 65-70: the commit of subscribe_newsletter
SubscribeCommit(r) ==
  /\ nsess[r].pc \in {"insert", "reactivate"}
  /\ LET s == nsess[r]
     IN IF s.pc = "insert"
          THEN IF InsertAccepted(subs, s.email)
                 THEN /\ subs' = subs \cup
                                   {NewSubscription(subs, s.email, s.source)}
                      /\ nresp' = [nresp EXCEPT ![r] =
                                     NewsAnswer("subscribe", s.email, 200)]
                 ELSE \* IntegrityError, rollback
                      /\ subs' = subs
                      /\ nresp' = [nresp EXCEPT ![r] =
                                     NewsAnswer("subscribe", s.email, 500)]
          ELSE LET cur == SubById(subs, s.loaded.id)
               IN /\ subs' = (subs \ {cur}) \cup
                               {Reactivated(cur, s.loaded, s.source)}
                  /\ nresp' = [nresp EXCEPT ![r] =
                                 NewsAnswer("subscribe", s.email, 200)]
  /\ nsess' = [nsess EXCEPT ![r] = NoCall]
  /\ UNCHANGED <<nstarted, orders, order_items, sess, resp, created,
                 everShipped, started, got, reviewVars>>

\* lines 79-98: the SELECT by address; 404 for no row, 400 for a row that
\* is not active, otherwise the two attributes are set
UnsubscribeSelect(r, e) ==
  LET found == SubsByEmail(subs, e)
  IN /\ nsess[r].pc = "idle"
     /\ r = FreeNewsSlot
     /\ nstarted < MaxNewsCalls
     /\ nstarted' = nstarted + 1
     /\ IF Cardinality(found) > 1
          THEN /\ nresp' = [nresp EXCEPT ![r] =
                              NewsAnswer("unsubscribe", e, 500)]
               /\ UNCHANGED nsess
          ELSE IF found = {}
          THEN /\ nresp' = [nresp EXCEPT ![r] =
                              NewsAnswer("unsubscribe", e, 404)]
               /\ UNCHANGED nsess
          ELSE LET row == CHOOSE s \in found : TRUE
               IN IF ~row.is_active
                    THEN /\ nresp' = [nresp EXCEPT ![r] =
                                        NewsAnswer("unsubscribe", e, 400)]
                         /\ UNCHANGED nsess
                    ELSE /\ nsess' = [nsess EXCEPT ![r] =
                                        [pc |-> "deactivate", email |-> e,
                                         loaded |-> row]]
                         /\ nresp' = [nresp EXCEPT ![r] =
                                        NewsAnswer("unsubscribe", e, 0)]
     /\ UNCHANGED <<subs, orders, order_items, sess, resp, created,
                    everShipped, started, got, reviewVars>>

\* lines 99-104: the commit of unsubscribe_newsletter
UnsubscribeCommit(r) ==
  /\ nsess[r].pc = "deactivate"
  /\ LET s   == nsess[r]
         cur == SubById(subs, s.loaded.id)
     IN /\ subs' = (subs \ {cur}) \cup {Deactivated(cur, s.loaded)}
        /\ nresp' = [nresp EXCEPT ![r] =
                       NewsAnswer("unsubscribe", s.email, 200)]
  /\ nsess' = [nsess EXCEPT ![r] = NoCall]
  /\ UNCHANGED <<nstarted, orders, order_items, sess, resp, created,
                 everShipped, started, got, reviewVars>>

\* the order endpoints are not called
OrdersQuiet ==
  /\ orders = {}
  /\ order_items = {}
  /\ sess = [r \in Requests |-> Idle]
  /\ resp = [r \in Requests |-> 0]
  /\ created = NoCreate
  /\ everShipped = {}
  /\ started = 0
  /\ got = NoRead

\* an empty subscription table and no call in flight
InitNews == OrdersQuiet /\ NewsQuiet /\ ReviewsQuiet

NextNews ==
  \/ \E r \in Requests, e \in Emails, src \in Sources :
       SubscribeSelect(r, e, src)
  \/ \E r \in Requests : SubscribeCommit(r)
  \/ \E r \in Requests, e \in Emails : UnsubscribeSelect(r, e)
  \/ \E r \in Requests : UnsubscribeCommit(r)

SpecNews == InitNews /\ [][NextNews]_vars

\* --------------------------------------------------------------- reviews
\* review requests that are started in one behaviour
MaxReviewCalls == 3

\* product ids a review request names; there is no product 9
ReviewProductIds == {1, 9}

\* values of the request field rating
RatingInputs == {0, 1, 5, 6}

\* values of the request fields title and comment
Titles == {"good", "bad"}

Comments == {"fine"}

\* review ids an update or delete request names
ReviewIds == {1, 2}

\* request bodies (ReviewCreate, lines 16-22)
ReviewBodies ==
  [product_id : ReviewProductIds, rating : RatingInputs, title : Titles,
   comment : Comments]

\* lines 55-58: select(Product).where(Product.id == product_id) finds a row
ProductFound(pid) == \E p \in Products : p.id = pid

\* line 66: the rating check of create_review
RatingValid(rating) == ~(rating < 1 \/ rating > 5)

\* lines 74-79: the reviews of user u for product pid
ReviewsOfUserForProduct(rows, u, pid) ==
  {rv \in rows : rv.product_id = pid /\ rv.user_id = u}

\* lines 215-220, 257-262: the review with this id written by user u
ReviewQueryAnyUser(rows, id, u) == {rv \in rows : rv.id = id}

ReviewQuery(rows, id, u) == {rv \in rows : rv.id = id /\ rv.user_id = u}

\* the slot a newly arriving review request is given
FreeReviewSlot ==
  IF rsess["r1"].pc = "idle" THEN "r1"
  ELSE IF rsess["r2"].pc = "idle" THEN "r2" ELSE "none"

\* lines 87-97 and the column defaults: the row create_review inserts
NewReview(u, d, id) ==
  [id |-> id, product_id |-> d.product_id, user_id |-> u,
   rating |-> d.rating, title |-> d.title, comment |-> d.comment,
   is_approved |-> TRUE, is_verified_purchase |-> TRUE,
   created_at |-> id, updated_at |-> Null]

\* lines 230-235: the UPDATE of update_review, written over row cur; the
\* unit of work sets the attributes whose value differs from the one loaded
UpdatedReview(cur, loaded, d) ==
  [cur EXCEPT !.rating = IF d.rating = loaded.rating THEN @ ELSE d.rating,
              !.title = IF d.title = loaded.title THEN @ ELSE d.title,
              !.comment = IF d.comment = loaded.comment THEN @
                                                        ELSE d.comment,
              !.updated_at = UpdateStamp(@)]

\* the exchange a slot has finished (code 0: the call is still running)
ReviewAnswer(op, u, id, code) ==
  [op |-> op, user |-> u, review_id |-> id, code |-> code]

\* lines 53-84: product lookup, rating check and the lookup of a review the
\* user has written for the product
CreateReviewSelect(r, u, d) ==
  LET existing == ReviewsOfUserForProduct(reviews, u, d.product_id)
      code == IF ~ProductFound(d.product_id) THEN 404
              ELSE IF ~RatingValid(d.rating) THEN 400
              ELSE IF Cardinality(existing) > 1 THEN 500
              ELSE IF existing # {} THEN 400
              ELSE 0
  IN /\ rsess[r].pc = "idle"
     /\ r = FreeReviewSlot
     /\ rstarted < MaxReviewCalls
     /\ rstarted' = rstarted + 1
     /\ rresp' = [rresp EXCEPT ![r] = ReviewAnswer("create_review", u, 0, code)]
     /\ IF code = 0
          THEN rsess' = [rsess EXCEPT ![r] =
                           [pc |-> "insert", user |-> u, data |-> d]]
          ELSE UNCHANGED rsess
     /\ UNCHANGED <<reviews, rseq, orders, order_items, sess, resp, created,
                    everShipped, started, got, newsVars>>

\* lines 87-103: the INSERT and the commit
CreateReviewCommit(r) ==
  /\ rsess[r].pc = "insert"
  /\ LET s == rsess[r]
     IN /\ reviews' = reviews \cup {NewReview(s.user, s.data, rseq + 1)}
        /\ rseq' = rseq + 1
        /\ rresp' = [rresp EXCEPT ![r] =
                       ReviewAnswer("create_review", s.user, rseq + 1, 200)]
  /\ rsess' = [rsess EXCEPT ![r] = NoCall]
  /\ UNCHANGED <<rstarted, orders, order_items, sess, resp, created,
                 everShipped, started, got, newsVars>>

\* lines 214-233: the SELECT by id and author; 404 for no row, otherwise
\* the attributes are set
UpdateReviewSelect(r, u, id, d) ==
  LET found == ReviewQuery(reviews, id, u)
  IN /\ rsess[r].pc = "idle"
     /\ r = FreeReviewSlot
     /\ rstarted < MaxReviewCalls
     /\ rstarted' = rstarted + 1
     /\ IF found = {}
          THEN /\ rresp' = [rresp EXCEPT ![r] =
                              ReviewAnswer("update_review", u, id, 404)]
               /\ UNCHANGED rsess
          ELSE /\ rresp' = [rresp EXCEPT ![r] =
                              ReviewAnswer("update_review", u, id, 0)]
               /\ rsess' = [rsess EXCEPT ![r] =
                              [pc |-> "update", user |-> u, review_id |-> id,
                               loaded |-> CHOOSE rv \in found : TRUE,
                               data |-> d]]
     /\ UNCHANGED <<reviews, rseq, orders, order_items, sess, resp, created,
                    everShipped, started, got, newsVars>>

\* lines 235-247: the commit; the UPDATE of a row that was deleted since
\* the SELECT matches no row (StaleDataError), which ends in 500
UpdateReviewCommit(r) ==
  /\ rsess[r].pc = "update"
  /\ LET s == rsess[r]
         cur == {rv \in reviews : rv.id = s.review_id}
     IN IF cur = {}
          THEN /\ reviews' = reviews
               /\ rresp' = [rresp EXCEPT ![r] =
                     ReviewAnswer("update_review", s.user, s.review_id, 500)]
          ELSE /\ reviews' = (reviews \ cur) \cup
                     {UpdatedReview(rv, s.loaded, s.data) : rv \in cur}
               /\ rresp' = [rresp EXCEPT ![r] =
                     ReviewAnswer("update_review", s.user, s.review_id, 200)]
  /\ rsess' = [rsess EXCEPT ![r] = NoCall]
  /\ UNCHANGED <<rstarted, rseq, orders, order_items, sess, resp, created,
                 everShipped, started, got, newsVars>>

\* lines 256-269: the SELECT by id and author; 404 for no row
DeleteReviewSelect(r, u, id) ==
  LET found == ReviewQuery(reviews, id, u)
  IN /\ rsess[r].pc = "idle"
     /\ r = FreeReviewSlot
     /\ rstarted < MaxReviewCalls
     /\ rstarted' = rstarted + 1
     /\ IF found = {}
          THEN /\ rresp' = [rresp EXCEPT ![r] =
                              ReviewAnswer("delete_review", u, id, 404)]
               /\ UNCHANGED rsess
          ELSE /\ rresp' = [rresp EXCEPT ![r] =
                              ReviewAnswer("delete_review", u, id, 0)]
               /\ rsess' = [rsess EXCEPT ![r] =
                              [pc |-> "delete", user |-> u,
                               review_id |-> id]]
     /\ UNCHANGED <<reviews, rseq, orders, order_items, sess, resp, created,
                    everShipped, started, got, newsVars>>

\* lines 271-274: the DELETE and the commit; a DELETE that matches no row
\* (the review was deleted since the SELECT) is only warned about
DeleteReviewCommit(r) ==
  /\ rsess[r].pc = "delete"
  /\ LET s == rsess[r]
     IN /\ reviews' = {rv \in reviews : rv.id # s.review_id}
        /\ rresp' = [rresp EXCEPT ![r] =
              ReviewAnswer("delete_review", s.user, s.review_id, 200)]
  /\ rsess' = [rsess EXCEPT ![r] = NoCall]
  /\ UNCHANGED <<rstarted, rseq, orders, order_items, sess, resp, created,
                 everShipped, started, got, newsVars>>

\* an empty review table and no call in flight
InitReviews == OrdersQuiet /\ NewsQuiet /\ ReviewsQuiet

NextReviews ==
  \/ \E r \in Requests, u \in Users, d \in ReviewBodies :
       CreateReviewSelect(r, u, d)
  \/ \E r \in Requests : CreateReviewCommit(r)
  \/ \E r \in Requests, u \in Users, id \in ReviewIds, d \in ReviewBodies :
       UpdateReviewSelect(r, u, id, d)
  \/ \E r \in Requests : UpdateReviewCommit(r)
  \/ \E r \in Requests, u \in Users, id \in ReviewIds :
       DeleteReviewSelect(r, u, id)
  \/ \E r \in Requests : DeleteReviewCommit(r)

SpecReviews == InitReviews /\ [][NextReviews]_vars

\* ------------------------------------------------------------- properties
\* a create_order call has just returned
CreateStep == created' # created

\* request r has just finished its update_order_status call
Finishes(r) == sess[r].pc = "loaded" /\ sess'[r].pc = "idle"

\* sum of unit_price * quantity over the item rows of order oid
RECURSIVE SumUnitTimesQty(_)
SumUnitTimesQty(rows) ==
  IF rows = {} THEN 0
  ELSE LET i == CHOOSE x \in rows : TRUE
       IN i.unit_price * i.quantity + SumUnitTimesQty(rows \ {i})

ItemsOf(oid) == {i \in order_items : i.order_id = oid}

\* C1: create_order is all-or-nothing.  A call that returns the order has
\* added exactly the order row and one item row per submitted item; a call
\* that returns an error has left orders and order_items as they were.
C1_CreateAllOrNothing ==
  [][CreateStep =>
       \/ /\ created'.code = 200
          /\ \E o \in orders' \ orders :
               /\ orders' = orders \cup {o}
               /\ order_items \subseteq order_items'
               /\ \A i \in order_items' \ order_items : i.order_id = o.id
               /\ Cardinality(order_items' \ order_items) =
                    Len(created'.items)
       \/ /\ created'.code # 200
          /\ orders' = orders
          /\ order_items' = order_items]_vars

\* a create_order call with two items has failed
C1_Witness ==
  /\ created.code = 500
  /\ Len(created.items) = 2
  /\ orders # {}

\* C2 (as claimed): of two overlapping status updates of one order, one to
\* shipped and one to cancelled, the one that commits second finds the
\* winner's status in place, reports a conflict and does not overwrite it.
C2_LoserGetsConflict ==
  [][\A r \in Requests :
       (/\ Finishes(r)
        /\ sess[r].new \in {"shipped", "cancelled"}
        /\ OrderById(orders, sess[r].order_id).status
             \in {"shipped", "cancelled"} \ {sess[r].new}
        /\ OrderById(orders, sess[r].order_id).status # sess[r].loaded)
       => /\ resp'[r] = 409
          /\ orders' = orders]_vars

\* C3: no two rows of orders carry the same order number, whatever numbers
\* the create_order calls have drawn.
C3_OrderNumbersUnique ==
  \A o1, o2 \in orders :
    o1.id # o2.id => o1.order_number # o2.order_number

\* a create_order call drew the number of an order that is in the store
C3_Witness ==
  /\ created.code # 0
  /\ \E o \in orders : o.order_number = created.order_number
  /\ Cardinality(orders) >= 2

C6_TotalMismatchRejected ==
  (created.code # 0 /\ created.total_amount # ItemsTotal(created.items))
    => created.detail = "TotalMismatch"

\* C7 (as claimed): the status of a cancelled or refunded order never
\* changes again.
C7_TerminalStatusesStay ==
  [][\A o \in orders :
       o.status \in {"cancelled", "refunded"} =>
         OrderById(orders', o.id).status = o.status]_vars

\* C8 (as claimed): an order is delivered only after it has been shipped.
C8_DeliveredAfterShipped ==
  \A o \in orders : o.status = "delivered" => o.id \in everShipped

\* the primary sequence, and the transitions one status update may make
NextInSequence(st) ==
  CASE st = "pending" -> "confirmed"
    [] st = "confirmed" -> "processing"
    [] st = "processing" -> "shipped"
    [] st = "shipped" -> "delivered"
    [] OTHER -> "none"

LegalTransition(from, to) ==
  \/ to = NextInSequence(from)
  \/ /\ to \in {"cancelled", "refunded"}
     /\ from \in {"pending", "confirmed", "processing", "shipped"}

\* C9 (as claimed): a status update moves an order one step forward along
\* the primary sequence or to a side exit; update_order_status takes no
\* caller identity and no override flag, so this binds every call of it.
C9_OneStepForward ==
  [][\A o \in orders :
       OrderById(orders', o.id).status # o.status =>
         LegalTransition(o.status, OrderById(orders', o.id).status)]_vars

\* C10 (as claimed): no order enters delivered while its payment status is
\* failed.
C10_NoDeliveryOnFailedPayment ==
  [][\A o \in orders :
       (o.status # "delivered"
        /\ OrderById(orders', o.id).status = "delivered")
       => o.payment_status # "failed"]_vars

\* C11 (as claimed): every order that has entered shipped carries a
\* shipped_at stamp, and an order that never entered shipped has none.
C11_ShippedAtStamped ==
  \A o \in orders : (o.id \in everShipped) <=> (o.shipped_at # Null)

\* C12: a status update to shipped of an order the request found shipped
\* is answered 200 and leaves table orders, shipped_at and updated_at
\* included, exactly as it was.
C12_ReapplyShippedIsNoOp ==
  [][\A r \in Requests :
       (Finishes(r) /\ sess[r].loaded = "shipped"
        /\ sess[r].new = "shipped")
       => (resp'[r] = 200 /\ orders' = orders)]_vars

\* shipped has been committed once for an order and a second update to
\* shipped of that order has read it and is about to commit
C12_Witness ==
  \E r \in Requests :
    /\ sess[r].pc = "loaded"
    /\ sess[r].loaded = "shipped"
    /\ sess[r].new = "shipped"
    /\ OrderById(orders, sess[r].order_id).status = "shipped"
    /\ OrderById(orders, sess[r].order_id).updated_at = 1

\* the answer get_order gives for an order id that is not in the store
NotFoundAnswer == [code |-> 404, detail |-> "Order not found",
                   body |-> << >>]

AnswerOf(g) == [code |-> g.code, detail |-> g.detail, body |-> g.body]

\* C13: get_order answers a user who does not own an existing order with
\* 404 and no order data, the very answer it gives for an id that is not
\* in the store.
C13_NonOwnerGetsNotFound ==
  (got.op = "get_order"
   /\ \/ ~OrderExists(orders, got.order_id)
      \/ OrderById(orders, got.order_id).user_id # got.user)
  => AnswerOf(got) = NotFoundAnswer

\* user 2 has asked for order 1, which exists and belongs to user 1
C13_Witness ==
  /\ got.op = "get_order"
  /\ OrderExists(orders, got.order_id)
  /\ OrderById(orders, got.order_id).user_id # got.user
  /\ got.code = 404

\* C14 (as claimed): get_order hands an existing order to its owner and to
\* any user with administrative privilege.
C14_OwnerOrAdminGetsOrder ==
  (got.op = "get_order"
   /\ OrderExists(orders, got.order_id)
   /\ \/ OrderById(orders, got.order_id).user_id = got.user
      \/ got.user \in AdminUsers)
  => (got.code = 200 /\ got.body = <<OrderById(orders, got.order_id)>>)

\* the sequence holds each row of the set once, newest first
IsNewestFirstListing(seq, rows) ==
  /\ Len(seq) = Cardinality(rows)
  /\ {seq[i] : i \in 1..Len(seq)} = rows
  /\ \A i, j \in 1..Len(seq) :
       i < j => seq[i].created_at >= seq[j].created_at

\* C15 (as claimed): get_user_orders answers with exactly the orders of the
\* requesting user, newest first.
C15_UserOrdersListing ==
  got.op = "get_user_orders"
  => /\ got.code = 200
     /\ IsNewestFirstListing(got.body, UserOrdersQuery(orders, got.user))

\* C16: no step removes an order: the ids in table orders never shrink.
C16_OrdersAppendOnly ==
  [][{o.id : o \in orders} \subseteq {o.id : o \in orders'}]_vars

\* an order has been cancelled or refunded and both orders are in the store
C16_Witness ==
  /\ \E o \in orders : o.status \in {"cancelled", "refunded"}
  /\ {o.id : o \in orders} = {1, 2}
  /\ \E r \in Requests : resp[r] = 200

\* C17: no step changes the order_number of an order that is in the store.
C17_OrderNumberImmutable ==
  [][\A o \in orders :
       OrderExists(orders', o.id) =>
         OrderById(orders', o.id).order_number = o.order_number]_vars

\* an order has had its status rewritten twice and a create_order call has
\* come back
C17_Witness ==
  /\ \E o \in orders : o.updated_at = 2
  /\ created.code # 0

\* the body is one create_order is meant to accept: positive quantities,
\* products that exist and are sold, a total that agrees with the items
ValidBody(items, total) ==
  /\ \A i \in 1..Len(items) :
       /\ items[i].quantity >= 1
       /\ \E p \in Products : p.id = items[i].product_id /\ p.is_active
  /\ total = ItemsTotal(items)

\* C18 (as claimed): a create_order call that draws the order number of an
\* order in the store does not fail for that; it draws again and succeeds.
C18_CollisionIsRetried ==
  (/\ created.code # 0
   /\ ValidBody(created.items, created.total_amount)
   /\ \E o \in orders : o.order_number = created.order_number)
  => created.code = 200

\* C19 (as claimed): a create_order call with an item of quantity below 1
\* is answered with InvalidQuantity.
C19_BadQuantityRejected ==
  (/\ created.code # 0
   /\ \E i \in 1..Len(created.items) : created.items[i].quantity < 1)
  => created.detail = "InvalidQuantity"

\* C20 (as claimed): a create_order call with an item whose product does
\* not exist or is not active is answered with ProductNotFound.
C20_UnknownProductRejected ==
  (/\ created.code # 0
   /\ \E i \in 1..Len(created.items) :
        ~\E p \in Products :
           p.id = created.items[i].product_id /\ p.is_active)
  => created.detail = "ProductNotFound"

\* C21 (as claimed): a create_order call with a valid body and an order
\* number no order carries succeeds, and the order it returns is pending,
\* unpaid, and has the sum of its item totals as subtotal.
C21_ValidCreateSucceeds ==
  (/\ created.code # 0
   /\ ValidBody(created.items, created.total_amount)
   /\ \A o \in QueryOrders : o.order_number # created.order_number)
  => /\ created.code = 200
     /\ \E o \in orders :
          /\ o.order_number = created.order_number
          /\ o.status = "pending"
          /\ o.payment_status = "pending"
          /\ o.subtotal = ItemsTotal(created.items)

\* seq is the page (skip, limit) of rows, newest first
IsPageOf(seq, rows, skip, limit) ==
  /\ Len(seq) <= limit
  /\ seq = Page(NewestFirst(rows), skip, limit)

\* C22 (as claimed): get_recent_orders answers with at most limit orders,
\* newest first, and the total number of orders; get_customers answers with
\* at most limit customers from position skip and the total number of
\* customers; neither is filtered by ownership.
C22_AdminListingsPagedWithTotal ==
  /\ got.op = "get_recent_orders" =>
       /\ got.code = 200
       /\ IsPageOf(got.body, orders, 0, got.limit)
       /\ "total" \in got.keys
       /\ got.total = Cardinality(orders)
  /\ got.op = "get_customers" =>
       /\ got.code = 200
       /\ IsPageOf(got.body, UserRows, got.skip, got.limit)
       /\ "total" \in got.keys
       /\ got.total = Cardinality(UserRows)

\* row n is row o with at most its status and the timestamps the
\* transition records rewritten
SameButStatus(o, n) ==
  n = [o EXCEPT !.status = n.status, !.updated_at = n.updated_at,
                !.shipped_at = n.shipped_at]

\* C23: the step that finishes an update_order_status call changes, of the
\* order it names, only the status and the timestamps of the transition:
\* payment_status, the money columns, the owner, the order number and the
\* items stay as they are, and every other order is left untouched.
C23_UpdateTouchesOnlyStatus ==
  [][\A r \in Requests :
       Finishes(r) =>
         /\ order_items' = order_items
         /\ Cardinality(orders') = Cardinality(orders)
         /\ \A o \in orders :
              IF o.id = sess[r].order_id
                THEN \E n \in orders' : n.id = o.id /\ SameButStatus(o, n)
                ELSE o \in orders']_vars

\* a paid order has been set to refunded: its payment_status is still
\* "paid", its totals are those it had, and the other order is as it was
C23_Witness ==
  /\ \E o \in orders :
       /\ o.id = 1 /\ o.status = "refunded" /\ o.payment_status = "paid"
       /\ o.updated_at # Null /\ o.total_amount = 3000
  /\ \E o \in orders : o.id = 2 /\ o.status = "pending"
                       /\ o.updated_at = Null

\* C25: an update_order_status call (a step that starts one) that names an
\* id no order has is answered 404 and changes no order, no item and no
\* session.
C25_MissingOrderGets404 ==
  [][started' # started =>
       \A r \in Requests, oid \in OrderIds, st \in StatusInputs :
         (~OrderExists(orders, oid) /\ UpdateSelect(r, oid, st)) =>
           /\ resp'[r] = 404
           /\ orders' = orders
           /\ order_items' = order_items
           /\ sess' = sess]_vars

\* a call for a missing order has been answered 404 after another call
\* changed an order, and the store holds the two orders it started with
C25_Witness ==
  /\ \E r \in Requests : resp[r] = 404 /\ sess[r].pc = "idle"
  /\ \E o \in orders : o.updated_at # Null
  /\ {o.id : o \in orders} = {1, 2}

\* order row o is in the store together with item rows
Whole(o) == ItemsOf(o.id) # {}

\* the order rows the SELECT of a read returns in the current state
ReadableOrders ==
  UNION {GetOrderQuery(orders, oid, u) \cup UserOrdersQuery(orders, u) :
           u \in QueryUsers, oid \in QueryIds \cup {5}}
  \cup UNION {{Page(NewestFirst(orders), 0, limit)[i] :
                 i \in 1..Len(Page(NewestFirst(orders), 0, limit))} :
              limit \in PageLimits}

C26_ActiveIffNotUnsubscribed ==
  \A s \in subs : s.is_active <=> (s.unsubscribed_at = Null)

\* one address has been unsubscribed and is inactive with its time set; the
\* other has been unsubscribed and subscribed again
C26_Witness ==
  /\ \E s \in subs : ~s.is_active /\ s.unsubscribed_at # Null
  /\ \E s \in subs : s.is_active /\ s.subscribed_at > 1
                     /\ s.unsubscribed_at = Null

\* C27: no step leaves two subscriptions with one address; the commit of a
\* reactivation leaves the one row of the address active; and the INSERT
\* of a subscribe call that finds the address taken by a row stored since
\* its SELECT ends in 500 and adds no row.
C27_OneSubscriptionPerEmail ==
  [][/\ \A s, t \in subs' : s.email = t.email => s = t
     /\ \A r \in Requests :
          (nsess[r].pc = "reactivate" /\ nsess'[r].pc = "idle") =>
            \E s \in subs' : s.email = nsess[r].email /\ s.is_active
     /\ \A r \in Requests :
          (/\ nsess[r].pc = "insert" /\ nsess'[r].pc = "idle"
           /\ SubsByEmail(subs, nsess[r].email) # {}) =>
            /\ nresp'[r].code = 500
            /\ subs' = subs]_vars

\* two subscribe calls for one new address both passed the existence
\* check; one has inserted the row, the other has been answered 500
C27_Witness ==
  /\ nresp["r1"].op = "subscribe" /\ nresp["r2"].op = "subscribe"
  /\ nresp["r1"].email = nresp["r2"].email
  /\ {nresp["r1"].code, nresp["r2"].code} = {200, 500}
  /\ Cardinality(SubsByEmail(subs, nresp["r1"].email)) = 1

\* slot r has just finished a call that had reached its commit as pc
Commits(r, pc) == rsess[r].pc = pc /\ rsess'[r].pc = "idle"

\* C28 (as claimed): no step leaves two reviews of one user for one
\* product, however create_review calls interleave, and a create_review
\* call of a user who has reviewed the product is answered 400.
C28_OneReviewPerUserAndProduct ==
  [][/\ \A a, b \in reviews' :
          (a.user_id = b.user_id /\ a.product_id = b.product_id) => a = b
     /\ \A r \in Requests, u \in Users, d \in ReviewBodies :
          (/\ ReviewsOfUserForProduct(reviews, u, d.product_id) # {}
           /\ RatingValid(d.rating)
           /\ CreateReviewSelect(r, u, d)) =>
            /\ rresp'[r].code = 400
            /\ reviews' = reviews]_vars

\* C29 (as claimed): no step leaves a review with a rating outside 1..5,
\* and a create_review or update_review call with such a rating is
\* rejected and leaves the reviews as they are.
C29_RatingInRange ==
  [][/\ \A rv \in reviews' : rv.rating >= 1 /\ rv.rating <= 5
     /\ \A r \in Requests, u \in Users, d \in ReviewBodies :
          (~RatingValid(d.rating) /\ CreateReviewSelect(r, u, d)) =>
            /\ rresp'[r].code \in {400, 404}
            /\ reviews' = reviews
     /\ \A r \in Requests :
          (Commits(r, "update") /\ ~RatingValid(rsess[r].data.rating)) =>
            /\ rresp'[r].code = 400
            /\ reviews' = reviews]_vars

\* C30: a step changes or removes a review only by finishing an
\* update_review or delete_review call of the review's author; a review
\* that stays keeps its product_id and user_id; and an update_review or
\* delete_review call that names the review of another user is answered
\* 404 and leaves reviews and sessions as they are.
C30_OnlyAuthorChangesReview ==
  [][/\ \A old \in reviews :
          /\ \A n \in reviews' :
               n.id = old.id =>
                 n.product_id = old.product_id /\ n.user_id = old.user_id
          /\ old \notin reviews' =>
               \E r \in Requests :
                 /\ Commits(r, "update") \/ Commits(r, "delete")
                 /\ rsess[r].review_id = old.id
                 /\ rsess[r].user = old.user_id
     /\ \A r \in Requests, u \in Users, id \in ReviewIds :
          (\E rv \in reviews : rv.id = id /\ rv.user_id # u) =>
            /\ \A d \in ReviewBodies :
                 UpdateReviewSelect(r, u, id, d) =>
                   /\ rresp'[r].code = 404
                   /\ reviews' = reviews /\ rsess' = rsess
            /\ DeleteReviewSelect(r, u, id) =>
                 /\ rresp'[r].code = 404
                 /\ reviews' = reviews /\ rsess' = rsess]_vars

\* a review has been updated by its author, and a delete_review call of
\* another user naming it has been answered 404
C30_Witness ==
  \E r \in Requests, rv \in reviews :
    /\ rresp[r].op = "delete_review" /\ rresp[r].code = 404
    /\ rv.id = rresp[r].review_id /\ rv.user_id # rresp[r].user
    /\ rv.updated_at # Null

====
